---- MODULE Spec2Model ----
(***************************************************************************)
(* A model of the 3D bin packing engine: the skyline profile, the layer    *)
(* packer (packLayerSkyline), the pallet packer (packPalletWithLayers),    *)
(* the orientation enumerator (getPalletOrientations) and the layer height *)
(* planner (buildLayerCandidates).                                         *)
(*                                                                         *)
(* Four specifications share the variables:                                *)
(*   SpecLayer   one direct call of packLayerSkyline, one step per pass of *)
(*               its placement loop;                                       *)
(*   Spec        one call of packPalletWithLayers (and a second call with  *)
(*               the candidate list permuted), one step per loop pass;     *)
(*   SpecOrient  calls of getPalletOrientations;                           *)
(*   SpecLayers  calls of buildLayerCandidates.                            *)
(*                                                                         *)
(* Numbers are the integers the callers pass; all scores and volumes stay  *)
(* far below 2^53, where the doubles of the code are exact.                *)
(***************************************************************************)
EXTENDS Integers, Sequences, FiniteSets

VARIABLES
    pc,                  \* position of the running call
    pallet,              \* Pallet argument: [w, h, d]
    boxesArg,            \* packPalletWithLayers / buildLayerCandidates: boxes
    layerCandidates,     \* packPalletWithLayers: layerCandidates (heights)
    ci,                  \* index of the candidate of the for loop
    remainingBoxes,      \* packPalletWithLayers: remainingBoxes
    placedAll,           \* packPalletWithLayers: placedAll
    currentY,            \* packPalletWithLayers: currentY
    currentLayerHeight,  \* packPalletWithLayers: currentLayerHeight
    bestPlaced,          \* packPalletWithLayers: bestPlaced
    bestUtil,            \* packPalletWithLayers: bestUtil, a fraction
    boxesIn,             \* packLayerSkyline: boxesIn
    layerHeight,         \* packLayerSkyline: layerHeight
    yBase,               \* packLayerSkyline: yBase
    boxes,               \* packLayerSkyline: boxes (the working copy)
    nodes,               \* packLayerSkyline: nodes (the skyline)
    placed,              \* packLayerSkyline: placed
    attemptLog,          \* history: placedAll of every finished attempt
    run,                 \* 1: first call, 2: call with permuted candidates
    firstResult,         \* history: the result of the first call
    orientations,        \* result of getPalletOrientations
    layers               \* result of buildLayerCandidates

vars == << pc, pallet, boxesArg, layerCandidates, ci, remainingBoxes,
           placedAll, currentY, currentLayerHeight, bestPlaced, bestUtil,
           boxesIn, layerHeight, yBase, boxes, nodes, placed, attemptLog,
           run, firstResult, orientations, layers >>

(***************************************************************************)
(* Bounds of the inputs.                                                   *)
(***************************************************************************)
\* SpecLayer: pallet cross-section, box dimensions, quantities, layer height
MaxLayerW == 4
MaxLayerD == 5
MaxLayerDim == 3
MaxLayerQty == 3
MaxLayerHeight == 2
\* Spec: pallet, box dimensions, quantities, candidate list
MaxPalletW == 2
MaxPalletD == 2
MaxPalletH == 3
MaxBoxDim == 2
MaxBoxQty == 2
MaxCands == 2
MaxCandHeight == 2
\* both: number of box types of a catalog
MaxTypes == 2
\* SpecOrient: the three dimensions
MaxOrientDim == 12
\* SpecLayers: box dimensions, quantities, box types, pallet height
MaxPlanDim == 3
MaxPlanQty == 1
MaxPlanTypes == 2
MaxPlanH == 3

(***************************************************************************)
(* Arithmetic helpers.                                                     *)
(***************************************************************************)
Abs(n) == IF n < 0 THEN -n ELSE n

Max2(a, b) == IF a >= b THEN a ELSE b

\* -Infinity, the start value of the Math.max folds (never the result: the
\* ranges folded over are not empty)
NegInfinity == -1000000

\* Math.max over nodes[lo..hi].z starting from -Infinity
RECURSIVE MaxZ(_, _, _)
MaxZ(ns, lo, hi) ==
    IF lo > hi THEN NegInfinity ELSE Max2(ns[lo].z, MaxZ(ns, lo + 1, hi))

(***************************************************************************)
(* mergeNodes: merge consecutive nodes with the same z.  The node kept is  *)
(* the earlier one, but its x is overwritten by the x of the dropped one.  *)
(***************************************************************************)
MergeStep(out, n) ==
    IF Len(out) = 0 THEN << n >>
    ELSE IF out[Len(out)].z = n.z
         THEN [out EXCEPT ![Len(out)].x = n.x]
         ELSE Append(out, n)

RECURSIVE MergeFrom(_, _, _)
MergeFrom(out, ns, k) ==
    IF k > Len(ns) THEN out ELSE MergeFrom(MergeStep(out, ns[k]), ns, k + 1)

mergeNodes(ns) == MergeFrom(<< >>, ns, 1)

(***************************************************************************)
(* skylineUpdate: set the filled depth over [x, x+bw) to newTop.           *)
(***************************************************************************)
\* the index reached by `while (i < nodes.length && P(nodes[i])) i++`,
\* as a count of nodes passed (0-based index of the code)
RECURSIVE SkipWhileLess(_, _, _)
SkipWhileLess(ns, i, x) ==
    IF i < Len(ns) /\ ns[i + 1].x < x THEN SkipWhileLess(ns, i + 1, x) ELSE i

RECURSIVE SkipWhileLeq(_, _, _)
SkipWhileLeq(ns, i, rightX) ==
    IF i < Len(ns) /\ ns[i + 1].x <= rightX
    THEN SkipWhileLeq(ns, i + 1, rightX) ELSE i

\* z of the last node with x <= rightX, 0 when there is none
RECURSIVE ZAfter(_, _, _)
ZAfter(ns, k, rightX) ==
    IF k < 1 THEN 0
    ELSE IF ns[k].x <= rightX THEN ns[k].z ELSE ZAfter(ns, k - 1, rightX)

skylineUpdate(ns, x, bw, newTop) ==
    LET rightX == x + bw
        i0 == SkipWhileLess(ns, 0, x)
        kept == SubSeq(ns, 1, i0)
        out1 == IF Len(kept) = 0 \/ kept[Len(kept)].x # x
                THEN Append(kept, [x |-> x, z |-> newTop])
                ELSE [kept EXCEPT ![Len(kept)].z = newTop]
        i1 == SkipWhileLeq(ns, i0, rightX)
        zAfter == ZAfter(ns, Len(ns), rightX)
        out2 == IF rightX < ns[Len(ns)].x
                THEN (IF zAfter # newTop
                      THEN Append(out1, [x |-> rightX, z |-> zAfter])
                      ELSE out1) \o SubSeq(ns, i1 + 1, Len(ns))
                ELSE Append(out1, ns[Len(ns)])
    IN mergeNodes(out2)

(***************************************************************************)
(* findBestBoxForGap: the best box type and orientation for a gap.         *)
(***************************************************************************)
Orients(box) ==
    << << box.w, box.h, box.d >>, << box.w, box.d, box.h >>,
       << box.h, box.w, box.d >>, << box.h, box.d, box.w >>,
       << box.d, box.w, box.h >>, << box.d, box.h, box.w >> >>

\* the quantity check left out
Available_anyQty(box) == TRUE

\* `if (box.qty <= 0) continue`
Available(box) == box.qty > 0

\* the composite score of orientation o = <<bw, bh, bd>>
Score(o, gapWidth, gapDepth, lh, maxAvailableY) ==
    LET fitsLayer == o[2] <= maxAvailableY
        primaryPenalty == IF fitsLayer THEN Abs(lh - o[2])
                          ELSE 100000 + Abs(o[2] - lh)
    IN primaryPenalty * 10000 + Abs(o[1] - gapWidth) * 100
       + Abs(o[3] - gapDepth)

\* null
NoCand == [index |-> 0, orientation |-> << 0, 0, 0 >>, score |-> 0]

\* the comparison of the scores turned around
RECURSIVE BestScan_greaterWins(_, _, _, _, _, _, _)
BestScan_greaterWins(bs, n, best, gapWidth, gapDepth, lh, maxAvailableY) ==
    IF n > 6 * Len(bs) THEN best
    ELSE LET i == ((n - 1) \div 6) + 1
             o == Orients(bs[i])[((n - 1) % 6) + 1]
             skip == ~Available(bs[i]) \/ o[1] > gapWidth \/ o[3] > gapDepth
             score == Score(o, gapWidth, gapDepth, lh, maxAvailableY)
             nb == IF skip THEN best
                   ELSE IF best = NoCand \/ score > best.score
                        THEN [index |-> i, orientation |-> o, score |-> score]
                        ELSE best
         IN BestScan_greaterWins(bs, n + 1, nb, gapWidth, gapDepth, lh,
                                 maxAvailableY)

\* the two nested loops, n = 6 * (i - 1) + (position of the orientation)
RECURSIVE BestScan(_, _, _, _, _, _, _)
BestScan(bs, n, best, gapWidth, gapDepth, lh, maxAvailableY) ==
    IF n > 6 * Len(bs) THEN best
    ELSE LET i == ((n - 1) \div 6) + 1
             o == Orients(bs[i])[((n - 1) % 6) + 1]
             skip == ~Available(bs[i]) \/ o[1] > gapWidth \/ o[3] > gapDepth
             score == Score(o, gapWidth, gapDepth, lh, maxAvailableY)
             nb == IF skip THEN best
                   ELSE IF best = NoCand \/ score < best.score
                        THEN [index |-> i, orientation |-> o, score |-> score]
                        ELSE best
         IN BestScan(bs, n + 1, nb, gapWidth, gapDepth, lh, maxAvailableY)

findBestBoxForGap(bs, gapWidth, gapDepth, lh, maxAvailableY) ==
    BestScan(bs, 1, NoCand, gapWidth, gapDepth, lh, maxAvailableY)

(***************************************************************************)
(* packLayerSkyline: one pass of the placement loop.                       *)
(***************************************************************************)
\* `while (j < nodes.length - 1 && span < bw)`: the pair <<j, span>> at exit,
\* j counted as in the code (0-based)
RECURSIVE SpanScan(_, _, _, _, _)
SpanScan(ns, gapX, bw, j, span) ==
    IF j < Len(ns) - 1 /\ span < bw
    THEN SpanScan(ns, gapX, bw, j + 1, ns[j + 2].x - gapX)
    ELSE << j, span >>

NoCommit == [ok |-> FALSE]

\* the body of the for loop for gap i (1-based): the commit it makes, or
\* NoCommit when it ends in one of its `continue`s
GapTry(ns, bs, pal, lh, i) ==
    LET gapX == ns[i].x
        gapWidthTotal == ns[i + 1].x - gapX
        maxZInSpan == MaxZ(ns, i, Len(ns) - 1)
        gapDepthAvailable == pal.d - maxZInSpan
        cand == findBestBoxForGap(bs, gapWidthTotal, gapDepthAvailable, lh, lh)
        bw == cand.orientation[1]
        bh == cand.orientation[2]
        bd == cand.orientation[3]
        js == SpanScan(ns, gapX, bw, i - 1, 0)
        exactMaxZ == MaxZ(ns, i, js[1])
    IN IF gapWidthTotal <= 0 THEN NoCommit
       ELSE IF gapDepthAvailable <= 0 THEN NoCommit
       ELSE IF cand = NoCand THEN NoCommit
       ELSE IF js[2] < bw THEN NoCommit
       ELSE IF exactMaxZ + bd > pal.d THEN NoCommit
       ELSE [ok |-> TRUE, index |-> cand.index, bw |-> bw, bh |-> bh,
             bd |-> bd, x |-> gapX, z |-> exactMaxZ]

\* the for loop over the gaps: the commit of the first gap that makes one
RECURSIVE GapScan(_, _, _, _, _)
GapScan(ns, bs, pal, lh, i) ==
    IF i > Len(ns) - 1 THEN NoCommit
    ELSE LET c == GapTry(ns, bs, pal, lh, i)
         IN IF c.ok THEN c ELSE GapScan(ns, bs, pal, lh, i + 1)

\* the decrement left out
Decrement_none(bs, index) == bs

\* `boxes[cand.index].qty -= 1`
Decrement(bs, index) == [bs EXCEPT ![index].qty = @ - 1]

\* the PlacedBox record pushed (qty: 1 and orientation: [bw, bh, bd] repeat
\* what w, h, d say and are left out)
PlacedBox(bs, c, y) ==
    [id |-> bs[c.index].id, w |-> c.bw, h |-> c.bh, d |-> c.bd,
     x |-> c.x, y |-> y, z |-> c.z]

\* the sentinel put at the pallet's depth
InitialNodes_sentinelAtDepth(pal) ==
    << [x |-> 0, z |-> 0], [x |-> pal.d, z |-> 0] >>

\* nodes: start [0,0] and sentinel [pallet.w, 0]
InitialNodes(pal) == << [x |-> 0, z |-> 0], [x |-> pal.w, z |-> 0] >>

RoundCommit ==
    /\ pc = "round"
    /\ \E c \in { GapScan(nodes, boxes, pallet, layerHeight, 1) } :
          /\ c.ok
          /\ nodes' = skylineUpdate(nodes, c.x, c.bw, c.z + c.bd)
          /\ placed' = Append(placed, PlacedBox(boxes, c, yBase))
          /\ boxes' = Decrement(boxes, c.index)
    /\ UNCHANGED << pc, pallet, boxesArg, layerCandidates, ci, remainingBoxes,
                    placedAll, currentY, currentLayerHeight, bestPlaced,
                    bestUtil, boxesIn, layerHeight, yBase, attemptLog, run,
                    firstResult, orientations, layers >>

\* `if (!anyPlacedThisRound) break` and the return of {placed, boxesOut}
RoundEnd ==
    /\ pc = "round"
    /\ ~GapScan(nodes, boxes, pallet, layerHeight, 1).ok
    /\ pc' = "ret"
    /\ UNCHANGED << pallet, boxesArg, layerCandidates, ci, remainingBoxes,
                    placedAll, currentY, currentLayerHeight, bestPlaced,
                    bestUtil, boxesIn, layerHeight, yBase, boxes, nodes,
                    placed, attemptLog, run, firstResult, orientations,
                    layers >>

(***************************************************************************)
(* Inputs.                                                                 *)
(***************************************************************************)
\* Box types with dimensions up to maxDim and quantities up to maxQty.  The
\* dimensions are drawn with w <= h <= d: findBestBoxForGap tries all six
\* orientations, and two different orientations never tie on the score.
BoxShapes(maxDim, maxQty) ==
    { [w |-> w, h |-> h, d |-> d, qty |-> q] :
        w \in 1..maxDim, h \in 1..maxDim, d \in 1..maxDim, q \in 0..maxQty }

SortedShapes(maxDim, maxQty) ==
    { s \in BoxShapes(maxDim, maxQty) : s.w <= s.h /\ s.h <= s.d }

\* a catalog: box types with their position as id
WithIds(shapes) ==
    [i \in 1..Len(shapes) |->
        [id |-> i, w |-> shapes[i].w, h |-> shapes[i].h, d |-> shapes[i].d,
         qty |-> shapes[i].qty]]

SeqsUpTo(S, n) == UNION { [1..k -> S] : k \in 0..n }

Catalogs(shapes, n) == { WithIds(s) : s \in SeqsUpTo(shapes, n) }

ZeroFrac == [num |-> 0, den |-> 1]

\* the variables a specification does not use
IdlePallet == /\ layerCandidates = << >> /\ ci = 0 /\ remainingBoxes = << >>
              /\ placedAll = << >> /\ currentY = 0 /\ currentLayerHeight = 0
              /\ bestPlaced = << >> /\ bestUtil = ZeroFrac
              /\ attemptLog = << >> /\ run = 0 /\ firstResult = << >>

IdleLayer == /\ boxesIn = << >> /\ layerHeight = 0 /\ yBase = 0
             /\ boxes = << >> /\ nodes = << >> /\ placed = << >>

IdlePlan == orientations = << >> /\ layers = << >>

(***************************************************************************)
(* SpecLayer: packLayerSkyline(boxesIn, pallet, layerHeight, 0).           *)
(***************************************************************************)
InitLayer ==
    /\ pc = "round"
    /\ pallet \in { [w |-> w, h |-> MaxPalletH, d |-> d] :
                      w \in 1..MaxLayerW, d \in 1..MaxLayerD }
    /\ boxesIn \in Catalogs(SortedShapes(MaxLayerDim, MaxLayerQty), MaxTypes)
    /\ layerHeight \in 1..MaxLayerHeight
    /\ yBase = 0
    /\ boxes = boxesIn
    /\ nodes = InitialNodes(pallet)
    /\ placed = << >>
    /\ boxesArg = << >>
    /\ IdlePallet
    /\ IdlePlan

NextLayer == RoundCommit \/ RoundEnd

SpecLayer == InitLayer /\ [][NextLayer]_vars

(***************************************************************************)
(* packPalletWithLayers.  A utilization usedVol / totalVolume is kept as   *)
(* the fraction [num, den] and compared by cross-multiplication.           *)
(***************************************************************************)
FracGT(a, b) == a.num * b.den > b.num * a.den

FracEq(a, b) == a.num * b.den = b.num * a.den

totalVolume(pal) == pal.w * pal.h * pal.d

\* placedAll.reduce((s, p) => s + p.w * p.h * p.d, 0)
RECURSIVE usedVol(_)
usedVol(ps) ==
    IF Len(ps) = 0 THEN 0
    ELSE ps[1].w * ps[1].h * ps[1].d + usedVol(Tail(ps))

\* Math.max(...placed.map(p => p.h)), placed not empty
RECURSIVE maxPlacedH(_)
maxPlacedH(ps) ==
    IF Len(ps) = 1 THEN ps[1].h ELSE Max2(ps[1].h, maxPlacedH(Tail(ps)))

\* the nominal layer height whatever was placed
effectiveLayerUsed_nominal(clh, ps) == clh

\* the tallest box whatever the layer height
effectiveLayerUsed_tallest(clh, ps) == maxPlacedH(ps)

\* Math.max(currentLayerHeight, maxPlacedH)
effectiveLayerUsed(clh, ps) == Max2(clh, maxPlacedH(ps))

\* the layer height after `if (currentY + currentLayerHeight > pallet.h)`
Clipped(y, clh, pal) == IF y + clh > pal.h THEN pal.h - y ELSE clh

\* ... and whether `if (currentLayerHeight <= 0) break` is taken
ClipBreaks(y, clh, pal) == y + clh > pal.h /\ pal.h - y <= 0

\* the last attempt kept whatever its utilization
BestAfter_last(best, ps, pal) ==
    [placed |-> ps,
     utilization |-> [num |-> usedVol(ps), den |-> totalVolume(pal)]]

\* bestUtil updated without bestPlaced
BestAfter_keepsPlaced(best, ps, pal) ==
    LET util == [num |-> usedVol(ps), den |-> totalVolume(pal)]
    IN IF FracGT(util, best.utilization)
       THEN [placed |-> best.placed, utilization |-> util]
       ELSE best

\* `if (util > bestUtil) { bestUtil = util; bestPlaced = placedAll; }`
BestAfter(best, ps, pal) ==
    LET util == [num |-> usedVol(ps), den |-> totalVolume(pal)]
    IN IF FracGT(util, best.utilization)
       THEN [placed |-> ps, utilization |-> util]
       ELSE best

ResetLayer == /\ boxesIn' = << >> /\ layerHeight' = 0 /\ yBase' = 0
              /\ boxes' = << >> /\ nodes' = << >> /\ placed' = << >>

\* the catalog copied once, before the loop: a later candidate goes on with
\* what the one before it left
NextCandidate_keepsRemaining ==
    /\ pc = "for"
    /\ ci <= Len(layerCandidates)
    /\ remainingBoxes' = IF ci = 1 THEN boxesArg ELSE remainingBoxes
    /\ placedAll' = << >>
    /\ currentY' = 0
    /\ currentLayerHeight' = layerCandidates[ci]
    /\ pc' = "while"
    /\ UNCHANGED << pallet, boxesArg, layerCandidates, ci, bestPlaced,
                    bestUtil, boxesIn, layerHeight, yBase, boxes, nodes,
                    placed, attemptLog, run, firstResult, orientations,
                    layers >>

\* the for loop takes the next candidate
NextCandidate ==
    /\ pc = "for"
    /\ ci <= Len(layerCandidates)
    /\ remainingBoxes' = boxesArg
    /\ placedAll' = << >>
    /\ currentY' = 0
    /\ currentLayerHeight' = layerCandidates[ci]
    /\ pc' = "while"
    /\ UNCHANGED << pallet, boxesArg, layerCandidates, ci, bestPlaced,
                    bestUtil, boxesIn, layerHeight, yBase, boxes, nodes,
                    placed, attemptLog, run, firstResult, orientations,
                    layers >>

\* the stacking loop ends: its condition fails, or the clipped height is <= 0
StackExit ==
    /\ pc = "while"
    /\ ~(currentY < pallet.h
          /\ ~ClipBreaks(currentY, currentLayerHeight, pallet))
    /\ currentLayerHeight' =
          IF currentY < pallet.h
          THEN Clipped(currentY, currentLayerHeight, pallet)
          ELSE currentLayerHeight
    /\ pc' = "util"
    /\ UNCHANGED << pallet, boxesArg, layerCandidates, ci, remainingBoxes,
                    placedAll, currentY, bestPlaced, bestUtil, boxesIn,
                    layerHeight, yBase, boxes, nodes, placed, attemptLog,
                    run, firstResult, orientations, layers >>

\* a pass of the stacking loop calls packLayerSkyline
StackCall ==
    /\ pc = "while"
    /\ currentY < pallet.h
    /\ ~ClipBreaks(currentY, currentLayerHeight, pallet)
    /\ currentLayerHeight' = Clipped(currentY, currentLayerHeight, pallet)
    /\ boxesIn' = remainingBoxes
    /\ layerHeight' = currentLayerHeight'
    /\ yBase' = currentY
    /\ boxes' = remainingBoxes
    /\ nodes' = InitialNodes(pallet)
    /\ placed' = << >>
    /\ pc' = "round"
    /\ UNCHANGED << pallet, boxesArg, layerCandidates, ci, remainingBoxes,
                    placedAll, currentY, bestPlaced, bestUtil, attemptLog,
                    run, firstResult, orientations, layers >>

\* packLayerSkyline returned no placement: `if (placed.length === 0) break`
LayerEmpty ==
    /\ pc = "ret"
    /\ Len(placed) = 0
    /\ pc' = "util"
    /\ ResetLayer
    /\ UNCHANGED << pallet, boxesArg, layerCandidates, ci, remainingBoxes,
                    placedAll, currentY, currentLayerHeight, bestPlaced,
                    bestUtil, attemptLog, run, firstResult, orientations,
                    layers >>

\* packLayerSkyline returned placements: accumulate and raise the cursor
LayerStacked ==
    /\ pc = "ret"
    /\ Len(placed) > 0
    /\ placedAll' = placedAll \o placed
    /\ currentY' = currentY + effectiveLayerUsed(currentLayerHeight, placed)
    /\ remainingBoxes' = boxes
    /\ pc' = "while"
    /\ ResetLayer
    /\ UNCHANGED << pallet, boxesArg, layerCandidates, ci,
                    currentLayerHeight, bestPlaced, bestUtil, attemptLog,
                    run, firstResult, orientations, layers >>

\* the utilization of the attempt, and the best kept
Utilization ==
    /\ pc = "util"
    /\ LET best == BestAfter([placed |-> bestPlaced, utilization |-> bestUtil],
                             placedAll, pallet)
       IN bestPlaced' = best.placed /\ bestUtil' = best.utilization
    /\ attemptLog' = Append(attemptLog, placedAll)
    /\ ci' = ci + 1
    /\ pc' = "for"
    /\ UNCHANGED << pallet, boxesArg, layerCandidates, remainingBoxes,
                    placedAll, currentY, currentLayerHeight, boxesIn,
                    layerHeight, yBase, boxes, nodes, placed, run,
                    firstResult, orientations, layers >>

\* return { placed: bestPlaced, utilization: bestUtil }
Return ==
    /\ pc = "for"
    /\ ci > Len(layerCandidates)
    /\ pc' = "done"
    /\ UNCHANGED << pallet, boxesArg, layerCandidates, ci, remainingBoxes,
                    placedAll, currentY, currentLayerHeight, bestPlaced,
                    bestUtil, boxesIn, layerHeight, yBase, boxes, nodes,
                    placed, attemptLog, run, firstResult, orientations,
                    layers >>

Range(s) == { s[i] : i \in DOMAIN s }

Permutations(s) ==
    { [i \in 1..Len(s) |-> s[p[i]]] :
        p \in { q \in [1..Len(s) -> 1..Len(s)] : Range(q) = 1..Len(s) } }

\* the caller calls again, same catalog and pallet, the candidates permuted
CallPermuted ==
    /\ pc = "done"
    /\ run = 1
    /\ layerCandidates' \in Permutations(layerCandidates)
    /\ firstResult' = << [placed |-> bestPlaced, utilization |-> bestUtil] >>
    /\ run' = 2
    /\ ci' = 1
    /\ bestPlaced' = << >>
    /\ bestUtil' = ZeroFrac
    /\ attemptLog' = << >>
    /\ pc' = "for"
    /\ UNCHANGED << pallet, boxesArg, remainingBoxes, placedAll, currentY,
                    currentLayerHeight, boxesIn, layerHeight, yBase, boxes,
                    nodes, placed, orientations, layers >>

Init ==
    /\ pc = "for"
    /\ pallet \in { [w |-> w, h |-> h, d |-> d] :
                      w \in 1..MaxPalletW, h \in 1..MaxPalletH,
                      d \in 1..MaxPalletD }
    /\ boxesArg \in Catalogs(SortedShapes(MaxBoxDim, MaxBoxQty), MaxTypes)
    /\ layerCandidates \in SeqsUpTo(1..MaxCandHeight, MaxCands)
    /\ ci = 1
    /\ remainingBoxes = << >>
    /\ placedAll = << >>
    /\ currentY = 0
    /\ currentLayerHeight = 0
    /\ bestPlaced = << >>
    /\ bestUtil = ZeroFrac
    /\ attemptLog = << >>
    /\ run = 1
    /\ firstResult = << >>
    /\ IdleLayer
    /\ IdlePlan

Next ==
    \/ NextCandidate
    \/ StackExit
    \/ StackCall
    \/ RoundCommit
    \/ RoundEnd
    \/ LayerEmpty
    \/ LayerStacked
    \/ Utilization
    \/ Return
    \/ CallPermuted

Spec == Init /\ [][Next]_vars

(***************************************************************************)
(* C1: two distinct boxes placed by one call of packLayerSkyline have      *)
(* disjoint footprints [x, x+w) x [z, z+d).                                *)
(***************************************************************************)
Overlap(p, q) ==
    /\ p.x < q.x + q.w /\ q.x < p.x + p.w
    /\ p.z < q.z + q.d /\ q.z < p.z + p.d

C1_NoOverlap ==
    \A a, b \in 1..Len(placed) : a # b => ~Overlap(placed[a], placed[b])

(***************************************************************************)
(* C2: after every commit the skyline has strictly increasing x, no two    *)
(* adjacent nodes with the same z, its first node at x = 0 and its last    *)
(* node at x = pallet.w.                                                   *)
(***************************************************************************)
C2_SkylineInvariant ==
    Len(placed) > 0 =>
        /\ \A i \in 1..(Len(nodes) - 1) :
              nodes[i].x < nodes[i + 1].x /\ nodes[i].z # nodes[i + 1].z
        /\ nodes[1].x = 0
        /\ nodes[Len(nodes)].x = pallet.w

(***************************************************************************)
(* C3: for every box type the quantity given in equals the quantity        *)
(* remaining plus the number of placements of that type, in every call of  *)
(* packLayerSkyline and along the chain of calls of one candidate; no      *)
(* remaining quantity is negative, and a type with qty = 0 is never placed.*)
(***************************************************************************)
Count(ps, id) == Cardinality({ i \in 1..Len(ps) : ps[i].id = id })

C3_Conservation ==
    /\ pc \in {"round", "ret"} =>
          \A t \in 1..Len(boxesIn) :
              /\ boxesIn[t].qty = boxes[t].qty + Count(placed, t)
              /\ boxes[t].qty >= 0
    /\ pc \in {"while", "round", "ret", "util"} =>
          \A t \in 1..Len(boxesArg) :
              /\ boxesArg[t].qty = remainingBoxes[t].qty + Count(placedAll, t)
              /\ remainingBoxes[t].qty >= 0
    /\ \A t \in 1..Len(boxesArg) :
          boxesArg[t].qty = 0 =>
             Count(placed, t) + Count(placedAll, t) + Count(bestPlaced, t) = 0

\* a second layer of an attempt has used up a type, beside a type with qty 0
C3_Witness ==
    /\ pc = "ret"
    /\ Len(placedAll) > 0
    /\ Len(placed) > 0
    /\ \E t \in 1..Len(boxesArg) : boxesArg[t].qty = 0
    /\ \E t \in 1..Len(boxesArg) : boxesArg[t].qty = MaxBoxQty /\ boxes[t].qty = 0

(***************************************************************************)
(* C4: the result of packPalletWithLayers has 0 <= utilization <= 1: the   *)
(* volume of the returned placements never exceeds the pallet volume.      *)
(***************************************************************************)
C4_UtilizationBound ==
    pc = "done" =>
        /\ 0 <= bestUtil.num
        /\ bestUtil.num <= bestUtil.den
        /\ usedVol(bestPlaced) <= totalVolume(pallet)

(***************************************************************************)
(* C5: packPalletWithLayers returns the same placement list and the same   *)
(* utilization for every permutation of layerCandidates.                   *)
(***************************************************************************)
C5_OrderInvariant ==
    (pc = "done" /\ run = 2) =>
        /\ bestPlaced = firstResult[1].placed
        /\ FracEq(bestUtil, firstResult[1].utilization)

(***************************************************************************)
(* C5, amended: the utilization returned is the same for every permutation *)
(* of layerCandidates; the placement list returned is that of the first    *)
(* candidate in list order reaching it, and the lists returned for two     *)
(* permutations differ only when two candidates with different placement   *)
(* lists tie on the best utilization.                                      *)
(***************************************************************************)
C5_UtilizationOrderInvariant ==
    (pc = "done" /\ run = 2) =>
        /\ FracEq(bestUtil, firstResult[1].utilization)
        /\ usedVol(bestPlaced) > 0 =>
              \E i \in 1..Len(attemptLog) :
                  /\ attemptLog[i] = bestPlaced
                  /\ \A j \in 1..(i - 1) :
                        usedVol(attemptLog[j]) < usedVol(bestPlaced)
        /\ bestPlaced # firstResult[1].placed =>
              \E i, j \in 1..Len(attemptLog) :
                  /\ attemptLog[i] = bestPlaced
                  /\ attemptLog[j] = firstResult[1].placed
                  /\ usedVol(attemptLog[i]) = usedVol(attemptLog[j])

\* the second call got the two candidates swapped, and the attempts of the
\* two candidates differ in utilization
C5_Witness ==
    /\ pc = "done"
    /\ run = 2
    /\ Len(attemptLog) = 2
    /\ layerCandidates[1] # layerCandidates[2]
    /\ usedVol(attemptLog[1]) > usedVol(attemptLog[2])
    /\ usedVol(attemptLog[2]) > 0

(***************************************************************************)
(* C6: the utilization returned is the maximum of the utilizations of the  *)
(* candidate attempts (0 with no placement when no attempt places a box),  *)
(* the placement list returned is the one of an attempt achieving it, and  *)
(* utilization = (volume of the returned placements) / pallet volume.      *)
(***************************************************************************)
C6_BestOfAttempts ==
    pc = "done" =>
        /\ Len(attemptLog) = Len(layerCandidates)
        /\ \A i \in 1..Len(attemptLog) :
              usedVol(attemptLog[i]) <= usedVol(bestPlaced)
        /\ \/ \E i \in 1..Len(attemptLog) : attemptLog[i] = bestPlaced
           \/ bestPlaced = << >>
        /\ FracEq(bestUtil, [num |-> usedVol(bestPlaced),
                             den |-> totalVolume(pallet)])

\* the second of two attempts is the better one and is the one returned
C6_Witness ==
    /\ pc = "done"
    /\ Len(attemptLog) = 2
    /\ 0 < usedVol(attemptLog[1])
    /\ usedVol(attemptLog[1]) < usedVol(attemptLog[2])
    /\ bestPlaced = attemptLog[2]

(***************************************************************************)
(* C9: packPalletWithLayers terminates: each pass of the placement loop    *)
(* commits a box (one unit less in the catalog) or ends the layer, each    *)
(* pass of the stacking loop strictly raises the cursor or ends the        *)
(* attempt; every step moves the call strictly forward in a bounded order, *)
(* so that no run of the call (and of the second call) is infinite.        *)
(***************************************************************************)
RECURSIVE TotalQty(_)
TotalQty(bs) == IF Len(bs) = 0 THEN 0 ELSE bs[1].qty + TotalQty(Tail(bs))

PlacementPassProgress ==
    pc = "round" =>
        \/ pc' = "ret" /\ placed' = placed /\ boxes' = boxes
        \/ /\ pc' = "round"
           /\ Len(placed') = Len(placed) + 1
           /\ TotalQty(boxes') = TotalQty(boxes) - 1

StackingPassProgress ==
    pc = "ret" =>
        \/ pc' = "util"
        \/ pc' = "while" /\ currentY' > currentY

\* the position of a call, growing lexicographically with every step
PcRank ==
    CASE pc = "for" -> 0 [] pc = "while" -> 1 [] pc = "round" -> 2
      [] pc = "ret" -> 3 [] pc = "util" -> 4 [] OTHER -> 5

Position ==
    << run, ci, IF pc = "for" THEN -1 ELSE currentY, PcRank, Len(placed) >>

RECURSIVE LexLess(_, _)
LexLess(a, b) ==
    IF Len(a) = 0 THEN FALSE
    ELSE a[1] < b[1] \/ (a[1] = b[1] /\ LexLess(Tail(a), Tail(b)))

\* the largest dimension of a box of the catalog, 0 for the empty catalog
RECURSIVE MaxBoxSide(_)
MaxBoxSide(bs) ==
    IF Len(bs) = 0 THEN 0
    ELSE Max2(Max2(bs[1].w, bs[1].h), Max2(bs[1].d, MaxBoxSide(Tail(bs))))

\* the positions are bounded: only finitely many steps can be taken
PositionBounded ==
    /\ run \in 1..2
    /\ ci \in 1..(Len(layerCandidates) + 1)
    /\ currentY \in 0..(pallet.h + MaxBoxSide(boxesArg))
    /\ Len(placed) \in 0..TotalQty(boxesArg)

C9_Terminates ==
    [][ /\ PlacementPassProgress
        /\ StackingPassProgress
        /\ LexLess(Position, Position')
        /\ PositionBounded' ]_vars

\* a call that stacked two layers has returned
C9_Witness ==
    /\ pc = "done"
    /\ run = 2
    /\ \E i, j \in 1..Len(bestPlaced) : bestPlaced[i].y < bestPlaced[j].y

(***************************************************************************)
(* C10: with an empty catalog, or every qty = 0, or no orientation of any  *)
(* box type fitting the pallet, the result is the empty placement list     *)
(* with utilization 0; and a layer that places nothing ends the stacking   *)
(* of its candidate, the placements of the earlier layers being kept.      *)
(***************************************************************************)
FitsPallet(o, pal) == o[1] <= pal.w /\ o[2] <= pal.h /\ o[3] <= pal.d

NothingToPlace ==
    \/ Len(boxesArg) = 0
    \/ \A t \in 1..Len(boxesArg) : boxesArg[t].qty = 0
    \/ \A t \in 1..Len(boxesArg) : \A k \in 1..6 :
          ~FitsPallet(Orients(boxesArg[t])[k], pallet)

C10_NothingToPlace ==
    [][ /\ (pc' = "done" /\ NothingToPlace') =>
             (bestPlaced' = << >> /\ bestUtil' = ZeroFrac)
        /\ (pc = "ret" /\ Len(placed) = 0) =>
             (pc' = "util" /\ placedAll' = placedAll) ]_vars

(***************************************************************************)
(* getPalletOrientations: the six permutations of (w, h, d), a triple kept *)
(* when its key `${a},${b},${c}` was not seen before.  A key is the text   *)
(* of the three numbers in decimal, as a sequence of characters.           *)
(***************************************************************************)
dims(p) ==
    << << p.w, p.h, p.d >>, << p.w, p.d, p.h >>, << p.h, p.w, p.d >>,
       << p.h, p.d, p.w >>, << p.d, p.w, p.h >>, << p.d, p.h, p.w >> >>

DigitChars == << "0", "1", "2", "3", "4", "5", "6", "7", "8", "9" >>

\* the decimal text of a natural number
RECURSIVE ToString(_)
ToString(n) ==
    IF n < 10 THEN << DigitChars[n + 1] >>
    ELSE ToString(n \div 10) \o << DigitChars[(n % 10) + 1] >>

\* the numbers run together, no separator
Key_noSeparator(t) == ToString(t[1]) \o ToString(t[2]) \o ToString(t[3])

Key(t) ==
    ToString(t[1]) \o << "," >> \o ToString(t[2]) \o << "," >>
    \o ToString(t[3])

\* dims.filter(...): the triples whose key is new, in order
RECURSIVE FilterSeen(_, _, _)
FilterSeen(ds, k, seen) ==
    IF k > Len(ds) THEN << >>
    ELSE IF Key(ds[k]) \in seen THEN FilterSeen(ds, k + 1, seen)
         ELSE << ds[k] >> \o FilterSeen(ds, k + 1, seen \cup { Key(ds[k]) })

getPalletOrientations(p) ==
    LET kept == FilterSeen(dims(p), 1, {})
    IN [i \in 1..Len(kept) |->
           [w |-> kept[i][1], h |-> kept[i][2], d |-> kept[i][3]]]

InitOrient ==
    /\ pc = "orient"
    /\ pallet \in { [w |-> w, h |-> h, d |-> d] :
                      w \in 1..MaxOrientDim, h \in 1..MaxOrientDim,
                      d \in 1..MaxOrientDim }
    /\ boxesArg = << >>
    /\ IdlePallet
    /\ IdleLayer
    /\ IdlePlan

GetOrientations ==
    /\ pc = "orient"
    /\ orientations' = getPalletOrientations(pallet)
    /\ pc' = "oriented"
    /\ UNCHANGED << pallet, boxesArg, layerCandidates, ci, remainingBoxes,
                    placedAll, currentY, currentLayerHeight, bestPlaced,
                    bestUtil, boxesIn, layerHeight, yBase, boxes, nodes,
                    placed, attemptLog, run, firstResult, layers >>

NextOrient == GetOrientations

SpecOrient == InitOrient /\ [][NextOrient]_vars

(***************************************************************************)
(* C7: getPalletOrientations returns the canonical sequence (w,h,d),       *)
(* (w,d,h), (h,w,d), (h,d,w), (d,w,h), (d,h,w) with every triple equal to  *)
(* an earlier one removed and first-seen order kept: 6 orientations when   *)
(* the three values differ, 3 when exactly two coincide, 1 when all three  *)
(* coincide.                                                               *)
(***************************************************************************)
Canonical(p) ==
    << [w |-> p.w, h |-> p.h, d |-> p.d], [w |-> p.w, h |-> p.d, d |-> p.h],
       [w |-> p.h, h |-> p.w, d |-> p.d], [w |-> p.h, h |-> p.d, d |-> p.w],
       [w |-> p.d, h |-> p.w, d |-> p.h], [w |-> p.d, h |-> p.h, d |-> p.w] >>

\* the elements of s at the positions in S, in order
RECURSIVE PickAt(_, _, _)
PickAt(s, S, k) ==
    IF k > Len(s) THEN << >>
    ELSE (IF k \in S THEN << s[k] >> ELSE << >>) \o PickAt(s, S, k + 1)

C7_Orientations ==
    pc = "oriented" =>
        LET canon == Canonical(pallet)
            firstSeen == { i \in 1..6 : \A j \in 1..(i - 1) : canon[j] # canon[i] }
            distinct == Cardinality({ pallet.w, pallet.h, pallet.d })
        IN /\ orientations = PickAt(canon, firstSeen, 1)
           /\ Len(orientations) = CASE distinct = 3 -> 6
                                    [] distinct = 2 -> 3
                                    [] distinct = 1 -> 1

\* exactly two values coincide, one of them written with two digits
C7_Witness ==
    /\ pc = "oriented"
    /\ pallet.w = pallet.d
    /\ pallet.w # pallet.h
    /\ pallet.h >= 10
    /\ Len(orientations) = 3

(***************************************************************************)
(* buildLayerCandidates: a Map from height to score, filled in the order   *)
(* of the catalog, then sorted by score.  The Map is the sequence of its   *)
(* entries in insertion order; Array.prototype.sort is stable.             *)
(***************************************************************************)
Min2(a, b) == IF a <= b THEN a ELSE b

\* Math.min(...[b.w, b.h, b.d].map(v => Math.abs(v - dim)))
closest(b, dim) ==
    Min2(Abs(b.w - dim), Min2(Abs(b.h - dim), Abs(b.d - dim)))

\* the inner loop: the sum of closest over the boxes
RECURSIVE scoreOf(_, _)
scoreOf(bs, dim) ==
    IF Len(bs) = 0 THEN 0 ELSE closest(bs[1], dim) + scoreOf(Tail(bs), dim)

\* a set of an existing key goes to the end of the Map
MapSet_moveToEnd(m, k, v) ==
    SelectSeq(m, LAMBDA e : e.height # k)
    \o << [height |-> k, evalScore |-> v] >>

\* Map.prototype.set: an existing key keeps its place
MapSet(m, k, v) ==
    IF \E i \in 1..Len(m) : m[i].height = k
    THEN [i \in 1..Len(m) |->
            IF m[i].height = k THEN [height |-> k, evalScore |-> v] ELSE m[i]]
    ELSE Append(m, [height |-> k, evalScore |-> v])

\* the dimensions in the order of the two outer loops
RECURSIVE AllDims(_)
AllDims(bs) ==
    IF Len(bs) = 0 THEN << >>
    ELSE << bs[1].w, bs[1].h, bs[1].d >> \o AllDims(Tail(bs))

\* the Map after the first n dimensions
RECURSIVE heightsAfter(_, _, _)
heightsAfter(bs, pal, n) ==
    IF n = 0 THEN << >>
    ELSE LET dim == AllDims(bs)[n]
             before == heightsAfter(bs, pal, n - 1)
         IN IF dim <= pal.h THEN MapSet(before, dim, scoreOf(bs, dim))
            ELSE before

\* a stable sort by ascending evalScore: e goes behind the entries that do
\* not compare greater
RECURSIVE InsertByScore(_, _)
InsertByScore(sorted, e) ==
    IF Len(sorted) = 0 THEN << e >>
    ELSE IF sorted[1].evalScore - e.evalScore <= 0
         THEN << sorted[1] >> \o InsertByScore(Tail(sorted), e)
         ELSE << e >> \o sorted

RECURSIVE SortByScore(_, _)
SortByScore(s, n) ==
    IF n = 0 THEN << >> ELSE InsertByScore(SortByScore(s, n - 1), s[n])

buildLayerCandidates(bs, pal) ==
    LET heights == heightsAfter(bs, pal, 3 * Len(bs))
    IN SortByScore(heights, Len(heights))

InitLayers ==
    /\ pc = "plan"
    /\ pallet \in { [w |-> 1, h |-> h, d |-> 1] : h \in 1..MaxPlanH }
    /\ boxesArg \in Catalogs(BoxShapes(MaxPlanDim, MaxPlanQty), MaxPlanTypes)
    /\ IdlePallet
    /\ IdleLayer
    /\ IdlePlan

BuildLayers ==
    /\ pc = "plan"
    /\ layers' = buildLayerCandidates(boxesArg, pallet)
    /\ pc' = "planned"
    /\ UNCHANGED << pallet, boxesArg, layerCandidates, ci, remainingBoxes,
                    placedAll, currentY, currentLayerHeight, bestPlaced,
                    bestUtil, boxesIn, layerHeight, yBase, boxes, nodes,
                    placed, attemptLog, run, firstResult, orientations >>

NextLayers == BuildLayers

SpecLayers == InitLayers /\ [][NextLayers]_vars

(***************************************************************************)
(* C8: buildLayerCandidates returns exactly one candidate per distinct box *)
(* dimension <= pallet.h (box types with qty = 0 included), each with      *)
(* evalScore the sum over the box types of min(|w-height|, |h-height|,     *)
(* |d-height|), sorted by ascending evalScore, candidates of equal         *)
(* evalScore in the order in which their heights first occur in the        *)
(* catalog read through w, h, d.                                           *)
(***************************************************************************)
FirstOccurrence(bs, v) ==
    CHOOSE n \in 1..(3 * Len(bs)) :
        /\ AllDims(bs)[n] = v
        /\ \A m \in 1..(n - 1) : AllDims(bs)[m] # v

MinDistanceSum(bs, v) ==
    LET dist(t) == CHOOSE m \in { Abs(bs[t].w - v), Abs(bs[t].h - v),
                                  Abs(bs[t].d - v) } :
                       /\ m <= Abs(bs[t].w - v)
                       /\ m <= Abs(bs[t].h - v)
                       /\ m <= Abs(bs[t].d - v)
        sum[t \in 0..Len(bs)] == IF t = 0 THEN 0 ELSE sum[t - 1] + dist(t)
    IN sum[Len(bs)]

C8_LayerCandidates ==
    pc = "planned" =>
        LET wanted == { v \in Range(AllDims(boxesArg)) : v <= pallet.h }
        IN /\ { layers[i].height : i \in 1..Len(layers) } = wanted
           /\ Len(layers) = Cardinality(wanted)
           /\ \A i \in 1..Len(layers) :
                 layers[i].evalScore = MinDistanceSum(boxesArg, layers[i].height)
           /\ \A i, j \in 1..Len(layers) :
                 i < j =>
                    \/ layers[i].evalScore < layers[j].evalScore
                    \/ /\ layers[i].evalScore = layers[j].evalScore
                       /\ FirstOccurrence(boxesArg, layers[i].height)
                            < FirstOccurrence(boxesArg, layers[j].height)

\* two candidates tie, the greater height first; a type has qty = 0 and a
\* dimension above pallet.h is left out
C8_Witness ==
    /\ pc = "planned"
    /\ Len(layers) >= 2
    /\ layers[1].evalScore = layers[2].evalScore
    /\ layers[1].evalScore > 0
    /\ layers[1].height > layers[2].height
    /\ \E t \in 1..Len(boxesArg) : boxesArg[t].qty = 0 /\ boxesArg[t].d > pallet.h

(***************************************************************************)
(* C11: read the skyline as the depth function on [0, pallet.w) whose      *)
(* value at p is the z of the node with the greatest x <= p.  Every commit *)
(* skylineUpdate(nodes, x, bw, newTop) of packLayerSkyline gives a depth   *)
(* function equal to newTop on [x, x+bw) and to the previous depth         *)
(* function everywhere else.                                               *)
(***************************************************************************)
\* -1 stands for "no node with x <= p"
DepthAt(ns, p) ==
    LET S == { i \in 1..Len(ns) : ns[i].x <= p }
    IN IF S = {} THEN -1
       ELSE ns[CHOOSE i \in S :
                  \A j \in S : ns[j].x < ns[i].x
                               \/ (ns[j].x = ns[i].x /\ j <= i)].z

C11_DepthFrame ==
    [][ Len(placed') = Len(placed) + 1 =>
          LET b == placed'[Len(placed')]
          IN \A p \in 0..(pallet.w - 1) :
                DepthAt(nodes', p) =
                   IF b.x <= p /\ p < b.x + b.w THEN b.z + b.d
                   ELSE DepthAt(nodes, p) ]_vars

(***************************************************************************)
(* The gaps of a skyline and the (box type, orientation, gap) combinations *)
(* of a round, as section 4.4 of the specification words them.             *)
(***************************************************************************)
Gaps(ns) == 1..(Len(ns) - 1)

GapWidthOf(ns, i) == ns[i + 1].x - ns[i].x

\* pallet.d minus the greatest z from the gap's node up to the sentinel
GapDepthOf(ns, pal, i) ==
    LET zs == { ns[k].z : k \in i..(Len(ns) - 1) }
    IN pal.d - (CHOOSE m \in zs : \A z \in zs : z <= m)

FeasibleCombo(ns, bs, pal, i, t, k) ==
    /\ bs[t].qty > 0
    /\ Orients(bs[t])[k][1] <= GapWidthOf(ns, i)
    /\ Orients(bs[t])[k][3] <= GapDepthOf(ns, pal, i)

ComboScore(ns, bs, pal, lh, i, t, k) ==
    Score(Orients(bs[t])[k], GapWidthOf(ns, i), GapDepthOf(ns, pal, i), lh, lh)

\* the box committed by this step, and the gap it was committed to
Committed == placed'[Len(placed')]

CommitGap == CHOOSE i \in Gaps(nodes) : nodes[i].x = Committed.x

CommittedScore ==
    Score(<< Committed.w, Committed.h, Committed.d >>,
          GapWidthOf(nodes, CommitGap),
          GapDepthOf(nodes, pallet, CommitGap), layerHeight, layerHeight)

(***************************************************************************)
(* C12: in every round of packLayerSkyline no feasible (box type with      *)
(* qty > 0, orientation, gap) combination has a strictly lower composite   *)
(* score than the box committed.                                           *)
(***************************************************************************)
C12_GlobalBest ==
    [][ Len(placed') = Len(placed) + 1 =>
          \A i \in Gaps(nodes) : \A t \in 1..Len(boxes) : \A k \in 1..6 :
              FeasibleCombo(nodes, boxes, pallet, i, t, k) =>
                 ComboScore(nodes, boxes, pallet, layerHeight, i, t, k)
                    >= CommittedScore ]_vars

(***************************************************************************)
(* C12, amended: in every round the box committed is the best-scoring      *)
(* candidate of the leftmost gap that has a feasible combination: it is    *)
(* feasible for that gap, no feasible (box type with qty > 0, orientation) *)
(* for that gap has a strictly lower composite score, and no gap to the    *)
(* left of it has a feasible combination.  Gaps to the right are not       *)
(* compared.                                                               *)
(***************************************************************************)
C12_BestOfLeftmostGap ==
    [][ Len(placed') = Len(placed) + 1 =>
          \E i \in Gaps(nodes) :
              /\ nodes[i].x = Committed.x
              /\ \E t \in 1..Len(boxes) : \E k \in 1..6 :
                    /\ FeasibleCombo(nodes, boxes, pallet, i, t, k)
                    /\ boxes[t].id = Committed.id
                    /\ Orients(boxes[t])[k]
                         = << Committed.w, Committed.h, Committed.d >>
              /\ \A t \in 1..Len(boxes) : \A k \in 1..6 :
                    FeasibleCombo(nodes, boxes, pallet, i, t, k) =>
                       ComboScore(nodes, boxes, pallet, layerHeight, i, t, k)
                          >= CommittedScore
              /\ \A g \in 1..(i - 1) : \A t \in 1..Len(boxes) : \A k \in 1..6 :
                    ~FeasibleCombo(nodes, boxes, pallet, g, t, k) ]_vars

\* a box was committed to a gap that is not the first one, with a second
\* box type feasible for that gap
C12_Witness ==
    /\ pc = "round"
    /\ Len(placed) > 0
    /\ placed[Len(placed)].x > 0
    /\ \E q \in 1..Len(placed) : placed[q].id # placed[Len(placed)].id

(***************************************************************************)
(* C13: after every non-empty layer the stacking cursor advances by the    *)
(* maximum actual height among the boxes placed in that layer: the y of    *)
(* the next layer is the y of this layer plus max(h) over its placements.  *)
(***************************************************************************)
\* the greatest h among the placements ps, ps not empty
TallestPlaced(ps) ==
    LET hs == { ps[i].h : i \in 1..Len(ps) }
    IN CHOOSE m \in hs : \A h \in hs : h <= m

\* this step ends a non-empty layer
LayerDone == pc = "ret" /\ Len(placed) > 0

C13_AdvanceByTallest ==
    [][ LayerDone => currentY' = yBase + TallestPlaced(placed) ]_vars

(***************************************************************************)
(* C13, amended: after every non-empty layer the stacking cursor advances  *)
(* by the larger of the layer height in use (the candidate's height,       *)
(* clipped to the headroom) and the maximum actual height among the boxes  *)
(* placed in that layer; every box of a layer has the y the cursor had     *)
(* when the layer was started.                                             *)
(***************************************************************************)
C13_AdvanceByLayerOrTallest ==
    [][ /\ LayerDone =>
              /\ \A i \in 1..Len(placed) : placed[i].y = yBase
              /\ yBase = currentY
              /\ layerHeight = currentLayerHeight
              /\ currentY' = yBase + (IF TallestPlaced(placed) > layerHeight
                                      THEN TallestPlaced(placed)
                                      ELSE layerHeight)
        /\ (pc = "while" /\ pc' = "round") => yBase' = currentY ]_vars

\* a second layer was started above a first layer whose boxes are all lower
\* than the layer height
C13_Witness ==
    /\ pc = "round"
    /\ Len(placedAll) > 0
    /\ \A i \in 1..Len(placedAll) : placedAll[i].y = 0
    /\ yBase > TallestPlaced(placedAll)
    /\ Len(placed) > 0

(***************************************************************************)
(* C14: every box in the result of packPalletWithLayers stays below the    *)
(* pallet's height bound: y + h <= pallet.h for every placement.           *)
(***************************************************************************)
C14_HeightBound ==
    pc = "done" =>
        \A i \in 1..Len(bestPlaced) :
            bestPlaced[i].y + bestPlaced[i].h <= pallet.h

(***************************************************************************)
(* C15: every box placed by packLayerSkyline lies inside the pallet's      *)
(* cross-section: x >= 0, z >= 0, x + w <= pallet.w and z + d <= pallet.d, *)
(* after any sequence of earlier commits in the layer.                     *)
(***************************************************************************)
C15_InsideCrossSection ==
    \A i \in 1..Len(placed) :
        /\ placed[i].x >= 0
        /\ placed[i].z >= 0
        /\ placed[i].x + placed[i].w <= pallet.w
        /\ placed[i].z + placed[i].d <= pallet.d

\* after earlier commits a box was placed into the far corner
C15_Witness ==
    /\ Len(placed) >= 3
    /\ LET b == placed[Len(placed)]
       IN /\ b.x > 0
          /\ b.z > 0
          /\ b.x + b.w = pallet.w
          /\ b.z + b.d = pallet.d

(***************************************************************************)
(* C16: within one candidate attempt of packPalletWithLayers the layers    *)
(* never interpenetrate vertically: for every box p of an earlier layer    *)
(* and every box q of a later layer, q.y >= p.y + p.h, also when p's       *)
(* orientation height exceeds the nominal layer height.                    *)
(***************************************************************************)
\* the boxes of ps are in the order of their layers; two boxes are of
\* different layers when their y differ
LayersApart(ps) ==
    \A i, j \in 1..Len(ps) :
        (i < j /\ ps[i].y # ps[j].y) => ps[j].y >= ps[i].y + ps[i].h

C16_NoVerticalInterpenetration ==
    /\ LayersApart(placedAll \o placed)
    /\ LayersApart(bestPlaced)
    /\ \A a \in 1..Len(attemptLog) : LayersApart(attemptLog[a])

\* a later layer holds a box above an earlier layer one of whose boxes is
\* taller than the candidate's height
C16_Witness ==
    /\ pc = "round"
    /\ Len(placed) > 0
    /\ \E i \in 1..Len(placedAll) :
          /\ placedAll[i].h > layerCandidates[ci]
          /\ placedAll[i].y < yBase

(***************************************************************************)
(* C17: packLayerSkyline stops only when the layer is full with respect to *)
(* its final skyline: at return there is no box type with remaining        *)
(* qty > 0, no orientation of it and no gap (adjacent breakpoints i, i+1)  *)
(* with the orientation's width <= nodes[i+1].x - nodes[i].x and its depth *)
(* <= pallet.d - nodes[i].z.                                               *)
(***************************************************************************)
FitsGap(ns, bs, pal, i, t, k) ==
    /\ bs[t].qty > 0
    /\ Orients(bs[t])[k][1] <= ns[i + 1].x - ns[i].x
    /\ Orients(bs[t])[k][3] <= pal.d - ns[i].z

C17_FullAtReturn ==
    pc = "ret" =>
        \A i \in Gaps(nodes) : \A t \in 1..Len(boxes) : \A k \in 1..6 :
            ~FitsGap(nodes, boxes, pallet, i, t, k)

(***************************************************************************)
(* C18: packLayerSkyline and packPalletWithLayers leave the caller's box   *)
(* catalog unchanged, and every candidate attempt of packPalletWithLayers  *)
(* starts from the full original quantities whatever the earlier attempts  *)
(* placed.                                                                 *)
(***************************************************************************)
C18_CatalogUntouched ==
    [][ /\ boxesArg' = boxesArg
        /\ pc = "round" => (boxesIn' = boxesIn
                            /\ remainingBoxes' = remainingBoxes)
        /\ (pc = "for" /\ pc' = "while") => remainingBoxes' = boxesArg
        /\ (pc = "while" /\ pc' = "round" /\ currentY = 0) =>
              (boxesIn' = boxesArg /\ boxes' = boxesArg) ]_vars

\* the second attempt packs its first layer after the first attempt has
\* placed boxes
C18_Witness ==
    /\ pc = "round"
    /\ ci = 2
    /\ currentY = 0
    /\ Len(attemptLog) = 1
    /\ Len(attemptLog[1]) > 0
    /\ Len(placed) > 0

====
